---------------------------- MODULE Spec2Model ----------------------------
(***************************************************************************)
(* ws2812-spi: the CommLayer (write_byte, flush) and the two SmartLedsWrite *)
(* implementations (Ws2812::write, Sk6812w::write) of src/src/lib.rs, as a  *)
(* state machine whose steps are the calls made on the SPI peripheral.      *)
(***************************************************************************)
EXTENDS Integers, Sequences, FiniteSets, TLC

VARIABLES
  variant,      \* which driver type owns the CommLayer: "Ws2812" or "Sk6812w"
  idle_high,    \* cfg!(feature = "mosi_idle_high")
  wpc,          \* position in write: "idle", "preflush", "for", "item", "flush";
                \* "test" when write_byte / flush are called on their own
  iterator,     \* the colors write has not pulled yet
  item,         \* the color of the current loop iteration
  chan,         \* which write_byte call of the loop body is running (1..4)
  cpc,          \* position in write_byte / flush
  data,         \* write_byte: mut data: u8
  serial_bits,  \* write_byte: serial_bits: u32
  i,            \* flush: iterations of 0..20 completed
  result,       \* what the last call returned
  sent,         \* bytes the peripheral accepted during the current call
  nreads,       \* spi.read() attempts during the current call
  lastOp,       \* the last call made on the peripheral during the current call
  blocked,      \* consecutive WouldBlock answers to the pending send
  input,        \* the argument of the current call
  calls,        \* calls made so far on this instance
  prev_failed   \* the call before the current one returned an error

vars == <<variant, idle_high, wpc, iterator, item, chan, cpc, data,
          serial_bits, i, result, sent, nreads, lastOp, blocked, input, calls,
          prev_failed>>

----------------------------------------------------------------------------
(* Bounds of the model *)

MaxPixels == 2

MaxBlock == 2

MaxCalls == 2

(* for _ in 0..20 *)
FlushLen == 20

----------------------------------------------------------------------------
(* Values *)

Variants == {"Ws2812", "Sk6812w"}

Errors == {1, 2}

NoColor == [r |-> 0, g |-> 0, b |-> 0]

(* RGB8 values handed to Ws2812::write *)
Rgb8Colors == {[r |-> 1, g |-> 2, b |-> 3], [r |-> 255, g |-> 0, b |-> 170]}

(* RGBW<u8, u8> values handed to Sk6812w::write *)
RgbwColors == {[r |-> 1, g |-> 2, b |-> 3, a |-> 4],
               [r |-> 255, g |-> 0, b |-> 170, a |-> 85]}

ColorsOf(v) == IF v = "Ws2812" THEN Rgb8Colors ELSE RgbwColors

SeqsUpTo(S, n) == UNION {[1..k -> S] : k \in 0..n}

(* nb::Result of spi.send / spi.read *)
Ok(v) == [kind |-> "Ok", val |-> v]

WouldBlock == [kind |-> "WouldBlock", val |-> 0]

Err(e) == [kind |-> "Err", val |-> e]

None == [kind |-> "None", val |-> 0]

SendResults == {Ok(0), WouldBlock} \cup {Err(e) : e \in Errors}

ReadResults == {Ok(0), Ok(255), WouldBlock} \cup {Err(e) : e \in Errors}

NoOp == [op |-> "none", byte |-> 0, res |-> None]

----------------------------------------------------------------------------
(* u8 / u32 arithmetic *)

RECURSIVE BitAnd(_, _)
BitAnd(x, y) ==
  IF x = 0 \/ y = 0 THEN 0
  ELSE (x % 2) * (y % 2) + 2 * BitAnd(x \div 2, y \div 2)

RECURSIVE BitOr(_, _)
BitOr(x, y) ==
  IF x = 0 THEN y
  ELSE IF y = 0 THEN x
  ELSE (IF x % 2 = 1 \/ y % 2 = 1 THEN 1 ELSE 0) + 2 * BitOr(x \div 2, y \div 2)

(* x << n on u32: the top n bits are dropped, (x * 2^n) % 2^32 *)
Shl32(x, n) == (x % 2^(32 - n)) * 2^n

(* x << n on u8 *)
Shl8(x, n) == (x * 2^n) % 2^8

Shr(x, n) == x \div 2^n

AsU8(x) == x % 2^8

----------------------------------------------------------------------------
(* CommLayer::write_byte *)

Pattern_low(d) == IF BitAnd(d, 128) = 128 THEN 6 ELSE 0

Pattern_swapped(d) == IF BitAnd(d, 128) = 128 THEN 4 ELSE 6

(* let bit = data & 0x80; let pattern = if bit == 0x80 { 0b110 } else { 0b100 } *)
Pattern(d) == IF BitAnd(d, 128) = 128 THEN 6 ELSE 4

(* one iteration of either loop, on <<serial_bits, data>>: pattern and the
   shifted accumulator are each computed once, then or-ed *)
EncodeBit(st) ==
  CHOOSE out \in {<<BitOr(pattern, shifted), Shl8(st[2], 1)>> :
                    pattern \in {Pattern(st[2])},
                    shifted \in {Shl32(st[1], 3)}} : TRUE

(* n iterations, each on the values the one before left *)
RECURSIVE EncodeBits(_, _)
EncodeBits(st, n) ==
  IF n = 0 THEN st
  ELSE CHOOSE out \in {EncodeBits(nx, n - 1) : nx \in {EncodeBit(st)}} : TRUE

FirstByte_unshifted(sb) == AsU8(sb)

(* (serial_bits >> 1) as u8, with 9 bits accumulated *)
FirstByte(sb) == AsU8(Shr(sb, 1))

(* (serial_bits >> 8) as u8 *)
SecondByte(sb) == AsU8(Shr(sb, 8))

(* serial_bits as u8 *)
ThirdByte(sb) == AsU8(sb)

WbSendPcs == {"wb_send1", "wb_send2", "wb_send3"}

WbReadPcs == {"wb_read1", "wb_read2", "wb_read3"}

(* the argument of the pending spi.send *)
SendArg ==
  CASE cpc = "wb_send1" -> FirstByte(serial_bits)
    [] cpc = "wb_send2" -> SecondByte(serial_bits)
    [] cpc = "wb_send3" -> ThirdByte(serial_bits)
    [] OTHER -> 0

(* entry of write_byte(b): the loop 0..3, up to the first send *)
WriteByteEntry(b) ==
  LET st == EncodeBits(<<0, b>>, 3) IN
  /\ cpc' = "wb_send1"
  /\ serial_bits' = st[1]
  /\ data' = st[2]

Block_once(res) == IF res.kind = "WouldBlock" THEN "Err" ELSE res.kind

Block_skip(res) == IF res.kind = "WouldBlock" THEN "Ok" ELSE res.kind

(* block!(..): WouldBlock evaluates the expression again, Ok and Err(Other)
   leave the loop *)
Block(res) == IF res.kind = "WouldBlock" THEN "retry" ELSE res.kind

AfterSend_noread3 ==
  CASE cpc = "wb_send1" -> "wb_read1"
    [] cpc = "wb_send2" -> "wb_read2"
    [] cpc = "wb_send3" -> "wb_ret"
    [] OTHER -> "fl_read"

AfterSend_noread1 ==
  CASE cpc = "wb_send1" -> "wb_send2"
    [] cpc = "wb_send2" -> "wb_read2"
    [] cpc = "wb_send3" -> "wb_read3"
    [] OTHER -> "fl_read"

(* the statement that follows an accepted send: the drain read *)
AfterSend ==
  CASE cpc = "wb_send1" -> "wb_read1"
    [] cpc = "wb_send2" -> "wb_read2"
    [] cpc = "wb_send3" -> "wb_read3"
    [] OTHER -> "fl_read"

DrainRead_try(r) == IF r.kind = "Err" THEN r ELSE None

(* self.spi.read().ok(); what the statement propagates to its caller *)
DrainRead(r) == None

----------------------------------------------------------------------------
(* The channel order of the two drivers *)

Ws2812Channel_rgb(it, k) ==
  CASE k = 1 -> it.r [] k = 2 -> it.g [] OTHER -> it.b

(* Ws2812::write: write_byte(item.g), (item.r), (item.b) *)
Ws2812Channel(it, k) ==
  CASE k = 1 -> it.g [] k = 2 -> it.r [] OTHER -> it.b

Sk6812wChannel_wfirst(it, k) ==
  CASE k = 1 -> it.a [] k = 2 -> it.g [] k = 3 -> it.r [] OTHER -> it.b

(* Sk6812w::write: write_byte(item.g), (item.r), (item.b), (item.a.0) *)
Sk6812wChannel(it, k) ==
  CASE k = 1 -> it.g [] k = 2 -> it.r [] k = 3 -> it.b [] OTHER -> it.a

Channel(v, it, k) ==
  IF v = "Ws2812" THEN Ws2812Channel(it, k) ELSE Sk6812wChannel(it, k)

NumChannels_three(v) == 3

(* write_byte calls per loop iteration *)
NumChannels(v) == IF v = "Ws2812" THEN 3 ELSE 4

----------------------------------------------------------------------------
(* Returning from write, write_byte and flush *)

(* the locals of write_byte and flush are gone once they return *)
CommDone ==
  /\ cpc' = "none"
  /\ data' = 0
  /\ serial_bits' = 0
  /\ i' = 0

(* write (or the direct caller of the CommLayer) returns r *)
Return(r) ==
  /\ result' = r
  /\ wpc' = IF wpc = "test" THEN "test" ELSE "idle"
  /\ iterator' = <<>>
  /\ item' = NoColor
  /\ chan' = 0
  /\ CommDone

(* block!(self.spi.send(..))? in write_byte got Err(e), and the ? of the
   caller hands it on *)
WriteByteFail_ignored(e) ==
  /\ cpc' = "wb_ret"
  /\ UNCHANGED <<wpc, iterator, item, chan, data, serial_bits, i, result>>

WriteByteFail_flush(e) ==
  /\ wpc' = IF wpc = "test" THEN "test" ELSE "flush"
  /\ cpc' = "fl_send"
  /\ UNCHANGED <<iterator, item, chan, data, serial_bits, i, result>>

WriteByteFail(e) == Return(Err(e))

FlushFail_ignored(e) ==
  /\ cpc' = "fl_read"
  /\ UNCHANGED <<wpc, iterator, item, chan, data, serial_bits, i, result>>

(* block!(self.spi.send(0))? in flush got Err(e) *)
FlushFail(e) == Return(Err(e))

----------------------------------------------------------------------------
(* Actions *)

StartCall(arg) ==
  /\ calls < MaxCalls
  /\ calls' = calls + 1
  /\ prev_failed' = (result.kind = "Err")
  /\ input' = arg
  /\ sent' = <<>>
  /\ nreads' = 0
  /\ lastOp' = NoOp
  /\ blocked' = 0
  /\ result' = None

Write_nopreflush(cs) ==
  /\ wpc = "idle"
  /\ StartCall(cs)
  /\ iterator' = cs
  /\ wpc' = "for"
  /\ UNCHANGED <<cpc, i>>
  /\ UNCHANGED <<variant, idle_high, item, chan, data, serial_bits>>

Write_flushafterfail(cs) ==
  /\ wpc = "idle"
  /\ StartCall(cs)
  /\ iterator' = cs
  /\ IF idle_high \/ result.kind = "Err"
       THEN wpc' = "preflush" /\ cpc' = "fl_send" /\ i' = 0
       ELSE wpc' = "for" /\ UNCHANGED <<cpc, i>>
  /\ UNCHANGED <<variant, idle_high, item, chan, data, serial_bits>>

(* SmartLedsWrite::write is called; runs up to the first call on the SPI *)
Write(cs) ==
  /\ wpc = "idle"
  /\ StartCall(cs)
  /\ iterator' = cs
  /\ IF idle_high
       THEN wpc' = "preflush" /\ cpc' = "fl_send" /\ i' = 0
       ELSE wpc' = "for" /\ UNCHANGED <<cpc, i>>
  /\ UNCHANGED <<variant, idle_high, item, chan, data, serial_bits>>

ForNext_peek ==
  /\ wpc = "for"
  /\ cpc = "none"
  /\ IF iterator = <<>>
       THEN /\ wpc' = "flush"
            /\ cpc' = "fl_send"
            /\ i' = 0
            /\ UNCHANGED <<iterator, item, chan, data, serial_bits>>
       ELSE /\ item' = Head(iterator)
            /\ iterator' = IF Len(iterator) = Len(input) THEN iterator
                                                         ELSE Tail(iterator)
            /\ chan' = 1
            /\ wpc' = "item"
            /\ WriteByteEntry(Channel(variant, Head(iterator), 1))
            /\ i' = i
  /\ UNCHANGED <<variant, idle_high, result, sent, nreads, lastOp, blocked,
                 input, calls, prev_failed>>

(* for item in iterator: pull the next color, or leave the loop and flush *)
ForNext ==
  /\ wpc = "for"
  /\ cpc = "none"
  /\ IF iterator = <<>>
       THEN /\ wpc' = "flush"
            /\ cpc' = "fl_send"
            /\ i' = 0
            /\ UNCHANGED <<iterator, item, chan, data, serial_bits>>
       ELSE /\ item' = Head(iterator)
            /\ iterator' = Tail(iterator)
            /\ chan' = 1
            /\ wpc' = "item"
            /\ WriteByteEntry(Channel(variant, Head(iterator), 1))
            /\ i' = i
  /\ UNCHANGED <<variant, idle_high, result, sent, nreads, lastOp, blocked,
                 input, calls, prev_failed>>

(* block!(self.spi.send(..))? of write_byte, one attempt *)
WriteByteSend(res) ==
  /\ cpc \in WbSendPcs
  /\ lastOp' = [op |-> "send", byte |-> SendArg, res |-> res]
  /\ CASE Block(res) = "retry" ->
            /\ blocked' = IF blocked < MaxBlock THEN blocked + 1 ELSE blocked
            /\ UNCHANGED <<wpc, iterator, item, chan, cpc, data, serial_bits,
                           i, result, sent>>
       [] Block(res) = "Ok" ->
            /\ sent' = Append(sent, SendArg)
            /\ blocked' = 0
            /\ IF cpc = "wb_send1"
                 THEN LET st == EncodeBits(<<serial_bits, data>>, 5) IN
                      /\ cpc' = AfterSend
                      /\ serial_bits' = st[1]
                      /\ data' = st[2]
                 ELSE /\ cpc' = AfterSend
                      /\ UNCHANGED <<data, serial_bits>>
            /\ UNCHANGED <<wpc, iterator, item, chan, i, result>>
       [] OTHER ->
            /\ blocked' = 0
            /\ sent' = sent
            /\ WriteByteFail(res.val)
  /\ UNCHANGED <<variant, idle_high, nreads, input, calls, prev_failed>>

(* what follows a drain read whose result was dropped *)
AfterRead ==
  CASE cpc = "wb_read1" -> "wb_send2"
    [] cpc = "wb_read2" -> "wb_send3"
    [] cpc = "wb_read3" -> "wb_ret"
    [] OTHER -> IF i + 1 < FlushLen THEN "fl_send" ELSE "fl_ret"

(* self.spi.read().ok() of write_byte *)
WriteByteRead(r) ==
  /\ cpc \in WbReadPcs
  /\ lastOp' = [op |-> "read", byte |-> 0, res |-> r]
  /\ nreads' = nreads + 1
  /\ IF DrainRead(r) = None
       THEN /\ cpc' = AfterRead
            /\ UNCHANGED <<wpc, iterator, item, chan, data, serial_bits, i,
                           result>>
       ELSE Return(DrainRead(r))
  /\ UNCHANGED <<variant, idle_high, sent, blocked, input, calls, prev_failed>>

(* write_byte returns Ok(()); the caller goes on *)
WriteByteReturn ==
  /\ cpc = "wb_ret"
  /\ CASE wpc = "test" -> Return(Ok(0))
       [] wpc = "item" /\ chan < NumChannels(variant) ->
            /\ chan' = chan + 1
            /\ WriteByteEntry(Channel(variant, item, chan + 1))
            /\ UNCHANGED <<wpc, iterator, item, i, result>>
       [] OTHER ->
            /\ wpc' = "for"
            /\ CommDone
            /\ UNCHANGED <<iterator, item, chan, result>>
  /\ UNCHANGED <<variant, idle_high, sent, nreads, lastOp, blocked, input,
                 calls, prev_failed>>

(* block!(self.spi.send(0))? of flush, one attempt *)
FlushSend(res) ==
  /\ cpc = "fl_send"
  /\ lastOp' = [op |-> "send", byte |-> 0, res |-> res]
  /\ CASE Block(res) = "retry" ->
            /\ blocked' = IF blocked < MaxBlock THEN blocked + 1 ELSE blocked
            /\ UNCHANGED <<wpc, iterator, item, chan, cpc, data, serial_bits,
                           i, result, sent>>
       [] Block(res) = "Ok" ->
            /\ sent' = Append(sent, 0)
            /\ blocked' = 0
            /\ cpc' = AfterSend
            /\ UNCHANGED <<wpc, iterator, item, chan, data, serial_bits, i,
                           result>>
       [] OTHER ->
            /\ blocked' = 0
            /\ sent' = sent
            /\ FlushFail(res.val)
  /\ UNCHANGED <<variant, idle_high, nreads, input, calls, prev_failed>>

(* self.spi.read().ok() of flush, and the end of the loop body *)
FlushRead(r) ==
  /\ cpc = "fl_read"
  /\ lastOp' = [op |-> "read", byte |-> 0, res |-> r]
  /\ nreads' = nreads + 1
  /\ IF DrainRead(r) = None
       THEN /\ cpc' = AfterRead
            /\ i' = i + 1
            /\ UNCHANGED <<wpc, iterator, item, chan, data, serial_bits,
                           result>>
       ELSE Return(DrainRead(r))
  /\ UNCHANGED <<variant, idle_high, sent, blocked, input, calls, prev_failed>>

(* flush returns Ok(()); write goes on to the loop, or returns Ok(()) *)
FlushReturn ==
  /\ cpc = "fl_ret"
  /\ IF wpc = "preflush"
       THEN /\ wpc' = "for"
            /\ CommDone
            /\ UNCHANGED <<iterator, item, chan, result>>
       ELSE Return(Ok(0))
  /\ UNCHANGED <<variant, idle_high, sent, nreads, lastOp, blocked, input,
                 calls, prev_failed>>

(* write_byte(b) called on its own *)
CallWriteByte(b) ==
  /\ wpc = "test"
  /\ cpc = "none"
  /\ StartCall(<<b>>)
  /\ WriteByteEntry(b)
  /\ UNCHANGED <<variant, idle_high, wpc, iterator, item, chan, i>>

(* flush() called on its own *)
CallFlush ==
  /\ wpc = "test"
  /\ cpc = "none"
  /\ StartCall(<<>>)
  /\ cpc' = "fl_send"
  /\ i' = 0
  /\ UNCHANGED <<variant, idle_high, wpc, iterator, item, chan, data,
                 serial_bits>>

----------------------------------------------------------------------------
(* Specifications *)

InitDriver ==
  /\ iterator = <<>>
  /\ item = NoColor
  /\ chan = 0
  /\ cpc = "none"
  /\ data = 0
  /\ serial_bits = 0
  /\ i = 0
  /\ result = None
  /\ sent = <<>>
  /\ nreads = 0
  /\ lastOp = NoOp
  /\ blocked = 0
  /\ input = <<>>
  /\ calls = 0
  /\ prev_failed = FALSE

(* Ws2812::new / Sk6812w::new, built with or without mosi_idle_high *)
Init ==
  /\ variant \in Variants
  /\ idle_high \in BOOLEAN
  /\ wpc = "idle"
  /\ InitDriver

Next ==
  \/ \E cs \in SeqsUpTo(ColorsOf(variant), MaxPixels) : Write(cs)
  \/ ForNext
  \/ \E res \in SendResults : WriteByteSend(res)
  \/ \E r \in ReadResults : WriteByteRead(r)
  \/ WriteByteReturn
  \/ \E res \in SendResults : FlushSend(res)
  \/ \E r \in ReadResults : FlushRead(r)
  \/ FlushReturn

Spec == Init /\ [][Next]_vars

(* CommLayer::new, its two methods called directly *)
InitComm ==
  /\ variant = "Ws2812"
  /\ idle_high = FALSE
  /\ wpc = "test"
  /\ InitDriver

NextComm ==
  \/ \E b \in 0..255 : CallWriteByte(b)
  \/ CallFlush
  \/ \E res \in SendResults : WriteByteSend(res)
  \/ \E r \in ReadResults : WriteByteRead(r)
  \/ WriteByteReturn
  \/ \E res \in SendResults : FlushSend(res)
  \/ \E r \in ReadResults : FlushRead(r)
  \/ FlushReturn

SpecComm == InitComm /\ [][NextComm]_vars

(* either a driver, or the CommLayer on its own *)
InitAll == Init \/ InitComm

NextAll ==
  \/ \E cs \in SeqsUpTo(ColorsOf(variant), MaxPixels) : Write(cs)
  \/ ForNext
  \/ \E b \in 0..255 : CallWriteByte(b)
  \/ CallFlush
  \/ \E res \in SendResults : WriteByteSend(res)
  \/ \E r \in ReadResults : WriteByteRead(r)
  \/ WriteByteReturn
  \/ \E res \in SendResults : FlushSend(res)
  \/ \E r \in ReadResults : FlushRead(r)
  \/ FlushReturn

SpecAll == InitAll /\ [][NextAll]_vars

(* the peripheral answers a pending send of write_byte with Ok or an error *)
WriteByteSendAnswered ==
  \E res \in SendResults \ {WouldBlock} : WriteByteSend(res)

(* the peripheral answers a pending send of flush with Ok or an error *)
FlushSendAnswered == \E res \in SendResults \ {WouldBlock} : FlushSend(res)

(* a step of the running call other than one more would-block answer *)
Progress ==
  \/ ForNext
  \/ WriteByteSendAnswered
  \/ \E r \in ReadResults : WriteByteRead(r)
  \/ WriteByteReturn
  \/ FlushSendAnswered
  \/ \E r \in ReadResults : FlushRead(r)
  \/ FlushReturn

(* write runs on one thread that is never stopped, and no send of the
   peripheral stays would-block forever *)
Fairness == WF_vars(Progress)

SpecLive == Init /\ [][Next]_vars /\ Fairness

----------------------------------------------------------------------------
(* What the claims speak of *)

(* the call has returned *)
Returned == cpc = "none" /\ result.kind # "None"

Min(x, y) == IF x < y THEN x ELSE y

IsPrefix(s, t) == Len(s) <= Len(t) /\ SubSeq(t, 1, Len(s)) = s

AllZero(s) == \A k \in 1..Len(s) : s[k] = 0

LastN(s, n) == SubSeq(s, Len(s) - n + 1, Len(s))

(* bit k of b, bit 0 the least significant *)
BitOf(b, k) == (b \div 2^k) % 2

(* the j-th transmitted bit (1..24) of p7 p6 .. p0, pk = 1 (bit k) 0 *)
SymbolBit(b, j) ==
  LET k == 7 - ((j - 1) \div 3)
      pos == (j - 1) % 3
  IN  IF pos = 0 THEN 1 ELSE IF pos = 1 THEN BitOf(b, k) ELSE 0

(* the n-th byte (1..3) of those 24 bits, first transmitted bit the highest *)
SymbolByte(b, n) ==
  LET o == 8 * (n - 1) IN
  128 * SymbolBit(b, o + 1) + 64 * SymbolBit(b, o + 2)
  + 32 * SymbolBit(b, o + 3) + 16 * SymbolBit(b, o + 4)
  + 8 * SymbolBit(b, o + 5) + 4 * SymbolBit(b, o + 6)
  + 2 * SymbolBit(b, o + 7) + SymbolBit(b, o + 8)

Triplet(b) == <<SymbolByte(b, 1), SymbolByte(b, 2), SymbolByte(b, 3)>>

(* the symbol triplets of one color, in the order the claims give *)
GrbBytes(c) == Triplet(c.g) \o Triplet(c.r) \o Triplet(c.b)

GrbwBytes(c) == GrbBytes(c) \o Triplet(c.a)

RECURSIVE GrbData(_)
GrbData(cs) == IF cs = <<>> THEN <<>> ELSE GrbBytes(Head(cs)) \o GrbData(Tail(cs))

RECURSIVE GrbwData(_)
GrbwData(cs) ==
  IF cs = <<>> THEN <<>> ELSE GrbwBytes(Head(cs)) \o GrbwData(Tail(cs))

(* bytes of the flush that the idle-high flag puts before the pixel data *)
PreLen == IF idle_high THEN 20 ELSE 0

(* bytes of pixel data a complete write of the input puts on the wire *)
DataLen == Len(input) * (IF variant = "Ws2812" THEN 9 ELSE 12)

(* the pixel data on the wire so far *)
PixelPart == SubSeq(sent, PreLen + 1, Min(Len(sent), PreLen + DataLen))

InWrite == wpc # "test" /\ calls > 0

(* write returned an error that a transfer of pixel data reported *)
AbortedInLoop ==
  /\ InWrite
  /\ Returned
  /\ result.kind = "Err"
  /\ PreLen <= Len(sent)
  /\ Len(sent) < PreLen + DataLen

----------------------------------------------------------------------------
(* C1: a write_byte(b) that returns Ok has had exactly 3 bytes accepted, whose
   24 bits are p7 .. p0 with pk = 110 if bit k of b is set and 100 otherwise;
   the first byte, sent with only 9 bits accumulated, is bits 23..16 of the
   full accumulator. *)
C1_Encoding ==
  (wpc = "test" /\ Len(input) = 1) =>
    /\ (cpc = "wb_ret" \/ (Returned /\ result = Ok(0))) => sent = Triplet(input[1])
    /\ cpc \in {"wb_read1", "wb_send2", "wb_read2", "wb_send3", "wb_read3",
                "wb_ret"} =>
         /\ sent[1] = Shr(serial_bits, 16) % 256
         /\ IsPrefix(sent, <<Shr(serial_bits, 16) % 256,
                             Shr(serial_bits, 8) % 256, serial_bits % 256>>)

C1_Witness ==
  /\ wpc = "test"
  /\ input = <<165>>
  /\ Returned
  /\ result = Ok(0)
  /\ sent = <<211, 73, 166>>

(* C9: write_byte(0x00) sends 0b10010010, 0b01001001, 0b00100100 and
   write_byte(0xFF) sends 0b11011011, 0b01101101, 0b10110110, in that order. *)
C9_Literals ==
  (wpc = "test" /\ Len(input) = 1 /\ Returned /\ result = Ok(0)) =>
    /\ input[1] = 0 => sent = <<146, 73, 36>>
    /\ input[1] = 255 => sent = <<219, 109, 182>>

C9_Witness ==
  /\ wpc = "test"
  /\ input = <<255>>
  /\ Returned
  /\ result = Ok(0)
  /\ Len(sent) = 3

(* C10: flush sends zero bytes one at a time; it returns Ok after exactly 20
   were accepted, and when the i-th send reports an error it returns that
   error at once, i-1 zero bytes accepted and no further transfer attempted. *)
C10_Flush ==
  (wpc = "test" /\ calls > 0 /\ Len(input) = 0) =>
    /\ AllZero(sent)
    /\ Len(sent) <= 20
    /\ cpc = "fl_send" => Len(sent) = i
    /\ cpc = "fl_read" => Len(sent) = i + 1
    /\ (cpc = "fl_ret" \/ result = Ok(0)) => Len(sent) = 20
    /\ (lastOp.op = "send" /\ lastOp.res.kind = "Err") =>
         /\ Returned
         /\ result = lastOp.res
         /\ lastOp.byte = 0
         /\ Len(sent) < 20
    /\ result.kind = "Err" => lastOp = [op |-> "send", byte |-> 0, res |-> result]

C10_Witness ==
  /\ wpc = "test"
  /\ calls > 0
  /\ Len(input) = 0
  /\ Returned
  /\ result = Err(2)
  /\ Len(sent) = 7

(* C2: Ws2812::write encodes and sends the channels of every color in the
   order green, red, blue, none skipped or repeated, the triplets of pixel n
   before those of pixel n+1; (red=1, green=2, blue=3) puts the triplet of 2
   on the wire first, then that of 1, then that of 3. *)
C2_Ws2812Order ==
  (InWrite /\ variant = "Ws2812") =>
    /\ IsPrefix(PixelPart, GrbData(input))
    /\ (Returned /\ result = Ok(0)) => PixelPart = GrbData(input)
    /\ (Returned /\ result = Ok(0) /\ input = <<[r |-> 1, g |-> 2, b |-> 3]>>) =>
         PixelPart = <<146, 73, 52, 146, 73, 38, 146, 73, 54>>

C2_Witness ==
  /\ InWrite
  /\ variant = "Ws2812"
  /\ Returned
  /\ result = Ok(0)
  /\ input = <<[r |-> 1, g |-> 2, b |-> 3], [r |-> 255, g |-> 0, b |-> 170]>>

(* C3: Sk6812w::write encodes and sends the channels of every color in the
   order green, red, blue, white, none skipped or repeated, the triplets of
   pixel n before those of pixel n+1; (red=1, green=2, blue=3, white=4) puts
   the triplets of 2, 1, 3, 4 on the wire in that order. *)
C3_Sk6812wOrder ==
  (InWrite /\ variant = "Sk6812w") =>
    /\ IsPrefix(PixelPart, GrbwData(input))
    /\ (Returned /\ result = Ok(0)) => PixelPart = GrbwData(input)
    /\ (Returned /\ result = Ok(0)
          /\ input = <<[r |-> 1, g |-> 2, b |-> 3, a |-> 4]>>) =>
         PixelPart = <<146, 73, 52, 146, 73, 38, 146, 73, 54, 146, 73, 164>>

C3_Witness ==
  /\ InWrite
  /\ variant = "Sk6812w"
  /\ Returned
  /\ result = Ok(0)
  /\ input = <<[r |-> 255, g |-> 0, b |-> 170, a |-> 85],
               [r |-> 1, g |-> 2, b |-> 3, a |-> 4]>>

(* C4: when write returns Ok for N colors, the peripheral has accepted exactly
   N*9 + 20 bytes (Ws2812) or N*12 + 20 bytes (Sk6812w), and 20 more with the
   idle-high flag; the last 20 are the zero bytes of the final flush. *)
C4_ByteCount ==
  (InWrite /\ Returned /\ result = Ok(0)) =>
    /\ variant = "Ws2812" =>
         Len(sent) = Len(input) * 9 + 20 + (IF idle_high THEN 20 ELSE 0)
    /\ variant = "Sk6812w" =>
         Len(sent) = Len(input) * 12 + 20 + (IF idle_high THEN 20 ELSE 0)
    /\ AllZero(LastN(sent, 20))

C4_Witness ==
  /\ InWrite
  /\ Returned
  /\ result = Ok(0)
  /\ variant = "Sk6812w"
  /\ ~idle_high
  /\ Len(input) = 2
  /\ Len(sent) = 44

(* C5: when a send belonging to a channel byte of a pixel reports an error,
   write returns exactly that error, and the failing send is the last call
   made on the peripheral: the rest of the triplet, of the pixel and of the
   sequence is not transmitted. *)
C5_SendErrorAborts ==
  (InWrite /\ lastOp.op = "send" /\ lastOp.res.kind = "Err") =>
    /\ Returned
    /\ wpc = "idle"
    /\ result = lastOp.res
    /\ Len(sent) < PreLen + DataLen + 20
    /\ (Len(sent) >= PreLen /\ Len(sent) < PreLen + DataLen) =>
         /\ AllZero(SubSeq(sent, 1, PreLen))
         /\ PixelPart = SubSeq(sent, PreLen + 1, Len(sent))
         /\ \A k \in 1..Len(PixelPart) : PixelPart[k] # 0

C5_Witness ==
  /\ AbortedInLoop
  /\ variant = "Ws2812"
  /\ Len(input) = 2
  /\ Len(sent) = PreLen + 9 + 4
  /\ result = Err(2)
  /\ lastOp.res = Err(2)

(* C6 as stated: also when the pixel loop is aborted by a channel-encoding
   failure, the 20-byte flush is sent after the last pixel data and before
   write returns. *)
C6_FlushAlways ==
  (InWrite /\ Returned /\ (result = Ok(0) \/ AbortedInLoop)) =>
    /\ Len(sent) >= PreLen + 20
    /\ AllZero(LastN(sent, 20))

(* C6, amended: after the color sequence is exhausted write performs one
   Flush (20 zero bytes), sent after the last pixel data and before write
   returns Ok; when the pixel loop is aborted by a channel-encoding failure
   no flush is performed: the failing send of pixel data is the last transfer
   attempted, and write returns its error. *)
C6_FlushOnExhaustion ==
  /\ (InWrite /\ wpc = "flush") =>
       /\ Len(sent) >= PreLen + DataLen
       /\ AllZero(SubSeq(sent, PreLen + DataLen + 1, Len(sent)))
  /\ (InWrite /\ Returned /\ result = Ok(0)) =>
       /\ Len(sent) = PreLen + DataLen + 20
       /\ AllZero(LastN(sent, 20))
  /\ AbortedInLoop =>
       /\ lastOp.op = "send"
       /\ lastOp.res = result
       /\ lastOp.byte # 0
       /\ Len(sent) > PreLen => sent[Len(sent)] # 0
  /\ (InWrite /\ Len(sent) < PreLen + DataLen) => result.kind # "Ok"

C6_Witness ==
  /\ AbortedInLoop
  /\ variant = "Sk6812w"
  /\ Len(sent) = PreLen + 12 + 7

(* C7: with the idle-high flag, write sends one complete flush of 20 zero
   bytes before it pulls any color or sends any pixel data, and a successful
   write of an empty sequence transmits exactly 40 zero bytes; without the
   flag no byte precedes the first pixel's data and an empty sequence
   transmits exactly 20 zero bytes. *)
C7_IdleHighPreflush ==
  InWrite =>
    /\ idle_high =>
         /\ AllZero(SubSeq(sent, 1, Min(Len(sent), 20)))
         /\ (wpc \in {"for", "item", "flush"} \/ result = Ok(0)) =>
              Len(sent) >= 20
         /\ (~Returned /\ iterator # input) => Len(sent) >= 20
         /\ wpc = "preflush" => (iterator = input /\ Len(sent) <= 20)
         /\ (Returned /\ result = Ok(0) /\ input = <<>>) =>
              (Len(sent) = 40 /\ AllZero(sent))
    /\ ~idle_high =>
         /\ wpc # "preflush"
         /\ (wpc = "for" /\ iterator = input) => sent = <<>>
         /\ (input # <<>> /\ sent # <<>>) => sent[1] = Triplet(input[1].g)[1]
         /\ (Returned /\ result = Ok(0) /\ input = <<>>) =>
              (Len(sent) = 20 /\ AllZero(sent))

C7_Witness ==
  /\ InWrite
  /\ idle_high
  /\ Returned
  /\ result = Ok(0)
  /\ input = <<>>
  /\ Len(sent) = 40

(* C8: whatever a drain read returns (a byte, would-block or an error), the
   write goes on as if nothing had been read: the step changes neither the
   bytes sent nor the result, returns nothing to the caller, and leaves the
   driver at the next send (or at the return of write_byte / flush). *)
C8_ReadIgnored ==
  [][nreads' = nreads + 1 =>
       /\ sent' = sent
       /\ result' = result
       /\ result' = None
       /\ wpc' = wpc
       /\ iterator' = iterator
       /\ cpc' = (CASE cpc = "wb_read1" -> "wb_send2"
                    [] cpc = "wb_read2" -> "wb_send3"
                    [] cpc = "wb_read3" -> "wb_ret"
                    [] OTHER -> IF i = 19 THEN "fl_ret" ELSE "fl_send")]_vars

C8_Witness ==
  /\ InWrite
  /\ wpc = "flush"
  /\ cpc = "fl_ret"
  /\ lastOp = [op |-> "read", byte |-> 0, res |-> Err(1)]
  /\ Len(input) = 1

(* C11 as stated: a successful write_byte makes exactly 2 read attempts, one
   after the first send and one after the second, none after the third. *)
C11_TwoReads ==
  (wpc = "test" /\ Len(input) = 1) =>
    /\ cpc # "wb_read3"
    /\ (Returned /\ result = Ok(0)) => nreads = 2

(* C11, amended: within one write_byte call a drain read follows each of the
   three transfers: a successful write_byte makes exactly 3 read attempts,
   one after the first send, one after the second and one after the third. *)
C11_ThreeReads ==
  (wpc = "test" /\ Len(input) = 1) =>
    /\ cpc = "wb_send1" => (Len(sent) = 0 /\ nreads = 0)
    /\ cpc = "wb_read1" => (Len(sent) = 1 /\ nreads = 0)
    /\ cpc = "wb_send2" => (Len(sent) = 1 /\ nreads = 1)
    /\ cpc = "wb_read2" => (Len(sent) = 2 /\ nreads = 1)
    /\ cpc = "wb_send3" => (Len(sent) = 2 /\ nreads = 2)
    /\ cpc = "wb_read3" => (Len(sent) = 3 /\ nreads = 2)
    /\ cpc = "wb_ret" => (Len(sent) = 3 /\ nreads = 3)
    /\ (Returned /\ result = Ok(0)) =>
         (Len(sent) = 3 /\ nreads = 3 /\ lastOp.op = "read")

C11_Witness ==
  /\ wpc = "test"
  /\ input = <<90>>
  /\ Returned
  /\ result = Ok(0)
  /\ nreads = 3
  /\ lastOp = [op |-> "read", byte |-> 0, res |-> WouldBlock]

(* C12: when a send answers would-block the driver attempts the send of the
   same byte again, with no read and no other byte in between, until the
   send is accepted or reports an error; a would-block answer changes
   nothing but the retry itself (no byte is skipped, duplicated or altered),
   and would-block is never returned to the caller. *)
C12_RetrySameByte ==
  [][/\ (lastOp'.op = "send" /\ lastOp'.res = WouldBlock) =>
          /\ cpc \in WbSendPcs \cup {"fl_send"}
          /\ <<wpc', cpc', iterator', item', chan', data', serial_bits', i'>>
               = <<wpc, cpc, iterator, item, chan, data, serial_bits, i>>
          /\ sent' = sent
          /\ nreads' = nreads
          /\ result' = None
          /\ SendArg' = lastOp'.byte
     /\ (lastOp.op = "send" /\ lastOp.res = WouldBlock /\ lastOp' # lastOp) =>
          /\ lastOp'.op = "send"
          /\ lastOp'.byte = lastOp.byte
          /\ nreads' = nreads
     /\ (lastOp'.op = "send" /\ lastOp'.res.kind = "Ok" /\ sent' # sent) =>
          sent' = Append(sent, lastOp'.byte)
     /\ result'.kind # "WouldBlock"
     /\ (result'.kind = "Err" /\ result # result') => result' = lastOp'.res
    ]_vars

C12_Witness ==
  /\ InWrite
  /\ cpc = "wb_send2"
  /\ blocked = 2
  /\ lastOp = [op |-> "send", byte |-> SendArg, res |-> WouldBlock]
  /\ Len(sent) = PreLen + 4

(* a write call is running *)
Running == wpc \in {"preflush", "for", "item", "flush"}

(* C13: every write of a finite color sequence eventually returns (Ok or the
   peripheral's error) provided no send stays would-block forever; the driver
   has no timeout or cancellation: a pending send is left only when the
   peripheral accepts the byte or reports an error, so a write whose send
   answers would-block forever stays at that byte. *)
C13_Terminates ==
  /\ Running ~> (wpc = "idle" /\ result.kind \in {"Ok", "Err"})
  /\ [][(cpc \in WbSendPcs \cup {"fl_send"}
           /\ (cpc' # cpc \/ wpc' # wpc \/ sent' # sent \/ result' # result)) =>
          /\ lastOp'.op = "send"
          /\ lastOp'.res.kind \in {"Ok", "Err"}
          /\ lastOp'.res.kind = "Ok" => sent' = Append(sent, lastOp'.byte)
          /\ lastOp'.res.kind = "Err" => result' = lastOp'.res]_vars

C13_Witness ==
  /\ wpc = "flush"
  /\ cpc = "fl_send"
  /\ blocked = 2
  /\ lastOp.res = WouldBlock
  /\ Len(sent) = PreLen + DataLen + 19
  /\ Len(input) = 2

(* colors pulled from the iterator so far, while the call runs *)
Pulled == Len(input) - Len(iterator)

(* symbol bytes of one color *)
ColorLen == IF variant = "Ws2812" THEN 9 ELSE 12

(* C14: write consumes the color sequence lazily, in order, each element
   once: a color is pulled only when every symbol byte of every channel of
   the one before has been accepted, every color has been pulled once when
   the final flush starts, and no color is pulled after a send failure. *)
C14_LazyInOrder ==
  /\ Running =>
       /\ Pulled >= 0
       /\ iterator = SubSeq(input, Pulled + 1, Len(input))
       /\ wpc = "preflush" => Pulled = 0
       /\ wpc = "for" => Len(sent) = PreLen + Pulled * ColorLen
       /\ wpc = "item" =>
            /\ Pulled >= 1
            /\ item = input[Pulled]
            /\ Len(sent) >= PreLen + (Pulled - 1) * ColorLen
            /\ Len(sent) <= PreLen + Pulled * ColorLen
            /\ Len(sent) >= PreLen + (Pulled - 1) * ColorLen + 3 * (chan - 1)
            /\ Len(sent) <= PreLen + (Pulled - 1) * ColorLen + 3 * chan
       /\ wpc = "flush" =>
            /\ Pulled = Len(input)
            /\ Len(sent) >= PreLen + Len(input) * ColorLen
  /\ (InWrite /\ lastOp.op = "send" /\ lastOp.res.kind = "Err") =>
       (~Running /\ Returned)
  /\ (InWrite /\ Returned /\ result = Ok(0)) =>
       Len(sent) = PreLen + Len(input) * ColorLen + 20

C14_Witness ==
  /\ wpc = "item"
  /\ Len(input) = 2
  /\ Pulled = 2
  /\ item = input[2]
  /\ input[1] # input[2]
  /\ chan = 1
  /\ cpc = "wb_send1"

(* C15: sends and drain reads strictly alternate throughout a write: the
   reads attempted never exceed the sends accepted and trail them by at most
   one; each accepted send is followed by one read before the next send is
   attempted, and no read comes before the first send or after a failed
   send. *)
C15_SendReadAlternate ==
  InWrite =>
    /\ nreads <= Len(sent)
    /\ Len(sent) <= nreads + 1
    /\ cpc \in WbSendPcs \cup {"fl_send"} => nreads = Len(sent)
    /\ cpc \in WbReadPcs \cup {"fl_read"} =>
         (Len(sent) = nreads + 1 /\ lastOp.op = "send" /\ lastOp.res.kind = "Ok")
    /\ cpc \in {"none", "wb_ret", "fl_ret"} => nreads = Len(sent)
    /\ lastOp.op = "read" => (nreads = Len(sent) /\ nreads >= 1)
    /\ (lastOp.op = "send" /\ lastOp.res.kind = "Ok") => Len(sent) = nreads + 1
    /\ (lastOp.op = "send" /\ lastOp.res.kind = "Err") =>
         (Returned /\ nreads = Len(sent))
    /\ sent = <<>> => nreads = 0

C15_Witness ==
  /\ InWrite
  /\ wpc = "item"
  /\ cpc = "wb_read3"
  /\ Len(sent) = PreLen + 6
  /\ nreads = PreLen + 5
  /\ idle_high

(* C16: pixel data is never confusable with the flush: for every input byte
   none of the three bytes write_byte sends is 0x00, the first transmitted
   bit of the triplet is 1 and the last is 0, while flush sends only 0x00;
   so in the bytes of a write the zero bytes are exactly the flush bytes. *)
C16_DataNeverZero ==
  /\ (wpc = "test" /\ Len(input) = 1) =>
       /\ \A k \in 1..Len(sent) : sent[k] # 0
       /\ Len(sent) >= 1 => sent[1] \div 128 = 1
       /\ Len(sent) = 3 => sent[3] % 2 = 0
       /\ (Returned /\ result = Ok(0)) => Len(sent) = 3
  /\ (wpc = "test" /\ calls > 0 /\ Len(input) = 0) => AllZero(sent)
  /\ InWrite =>
       \A k \in 1..Len(sent) :
         sent[k] = 0 <=> (k <= PreLen \/ k > PreLen + DataLen)

C16_Witness ==
  /\ InWrite
  /\ Returned
  /\ result = Ok(0)
  /\ idle_high
  /\ variant = "Ws2812"
  /\ input = <<[r |-> 255, g |-> 0, b |-> 170], [r |-> 255, g |-> 0, b |-> 170]>>
  /\ Len(sent) = 58

(* what a driver holds besides the peripheral when no call runs: nothing *)
FreshDriver ==
  /\ iterator = <<>>
  /\ item = NoColor
  /\ chan = 0
  /\ cpc = "none"
  /\ data = 0
  /\ serial_bits = 0
  /\ i = 0

(* C17: the driver carries no state from one write call to the next: a
   write starts from the state of a freshly constructed driver whatever the
   earlier calls did, and the state it starts in depends on its color
   sequence and the build alone; a write that follows a failed one does not
   resume the failed frame and is not preceded by an extra flush. *)
C17_NoCarriedState ==
  [][calls' = calls + 1 =>
       /\ FreshDriver
       /\ wpc = "idle"
       /\ iterator' = input'
       /\ sent' = <<>>
       /\ nreads' = 0
       /\ lastOp' = NoOp
       /\ result' = None
       /\ blocked' = 0
       /\ <<item', chan', data', serial_bits', i'>> = <<NoColor, 0, 0, 0, 0>>
       /\ wpc' = (IF idle_high THEN "preflush" ELSE "for")
       /\ cpc' = (IF idle_high THEN "fl_send" ELSE "none")]_vars

C17_Witness ==
  /\ InWrite
  /\ prev_failed
  /\ calls = 2
  /\ ~idle_high
  /\ Returned
  /\ result = Ok(0)
  /\ Len(input) = 1
  /\ sent = (IF variant = "Ws2812" THEN GrbData(input) ELSE GrbwData(input))
              \o <<0, 0, 0, 0, 0, 0, 0, 0, 0, 0, 0, 0, 0, 0, 0, 0, 0, 0, 0, 0>>

=============================================================================
